---- MODULE Spec2Model ----
(***************************************************************************)
(* The Discord <-> MediaWiki link service: the `links` table, the bot's    *)
(* verify state machine (bot/core/verification.py) with the token issuer   *)
(* (bot/core/database.py), the purge job (bot/core/tasks.py) and the web   *)
(* callback (api/app.py).                                                  *)
(*                                                                         *)
(* Every SQL statement is one atomic step.  Each DatabaseManager call      *)
(* opens a connection of its own and the web application is a separate     *)
(* process, so statements of different calls interleave as PostgreSQL's    *)
(* default READ COMMITTED isolation lets them.  Time is in seconds.        *)
(***************************************************************************)
EXTENDS Integers, FiniteSets, Sequences, TLC

\* ------------------------------------------------------------------ bounds
MaxIds == 2
MaxRuns == 2
MaxSessions == 2
MaxGuilds == 2
MaxKeys == 2
MaxTime == 14400
TickStep == 3600

\* ------------------------------------------------------- program constants
REISSUE_COOLDOWN == 3600
JWT_EXP_DELTA_SECONDS == 600
TOKEN_EXPIRY_HOURS == 3
SecondsPerHour == 3600

DiscordIds == 1..MaxIds
\* the Discord ids the table may hold: those and one that runs no command
StoreIds == 1..(MaxIds + 1)
Runs == 1..MaxRuns
Sessions == 1..MaxSessions
WikiNames == {"AliceWiki", "Bob"}

NULL == "NULL"
NoToken == 0
\* secrets.token_urlsafe(32): every call draws another value; a run calls
\* create_verification_token once, so its token is named after the run
FreshToken(r) == r
\* a link token a requester made up: it matches no record, ever
BogusToken == MaxRuns + 1

VARIABLES
    links,          \* the rows of table links
    now,            \* the wall clock
    ctx,            \* VerificationContext of each verify run, with the
                    \* locals of its create_verification_token call
    sess,           \* the Flask session of each requester and the position
                    \* of its callback request
    deleted_count,  \* what the last purge_old_tokens returned
    cmd,            \* the invocation of verified, unverify or lookup that
                    \* is being served
    roles,          \* the <<guild, member>> pairs that hold the wiki-author
                    \* role
    sweep           \* the run of grant_roles_loop in progress

vars == <<links, now, ctx, sess, deleted_count, cmd, roles, sweep>>

\* ------------------------------------------------------------ the table
Row(id, name, tok, t, v) ==
    [discord_id |-> id, mediawiki_username |-> name, token |-> tok,
     created_at |-> t, verified |-> v]

SelectById(rows, id) == {r \in rows : r.discord_id = id}

\* discord_id BIGINT PRIMARY KEY: an INSERT of a present key raises
\* (NoPrimaryKey: the table declared without the key)
NoPrimaryKey(rows, id) == FALSE
PrimaryKeyViolation(rows, id) == \E r \in rows : r.discord_id = id

\* INSERT INTO links (discord_id, token, created_at, verified)
\*   VALUES (.., .., .., FALSE)
\* (InsertLinkVerified: the statement with TRUE for verified)
InsertLinkVerified(rows, id, tok, t) == rows \cup {Row(id, NULL, tok, t, TRUE)}
InsertLink(rows, id, tok, t) == rows \cup {Row(id, NULL, tok, t, FALSE)}

\* UPDATE links SET token, created_at, verified = FALSE WHERE discord_id = ..
\* (UpdateAllTokens: the statement without its WHERE clause;
\* UpdateTokenAppending: the new values stored in a row of their own)
UpdateTokenAppending(rows, id, tok, t) ==
    rows \cup {[r EXCEPT !.token = tok, !.created_at = t, !.verified = FALSE] :
                  r \in SelectById(rows, id)}
UpdateAllTokens(rows, id, tok, t) ==
    {[r EXCEPT !.token = tok, !.created_at = t, !.verified = FALSE] : r \in rows}
UpdateToken(rows, id, tok, t) ==
    {IF r.discord_id = id
       THEN [r EXCEPT !.token = tok, !.created_at = t, !.verified = FALSE]
       ELSE r : r \in rows}

\* "Less than 1 hour" of create_verification_token
\* (RecentWithinOrAt: the comparison written <=)
RecentWithinOrAt(created_at, t) == t - created_at <= REISSUE_COOLDOWN
Recent(created_at, t) == t - created_at < REISSUE_COOLDOWN

\* UPDATE links SET verified = TRUE, mediawiki_username = .. WHERE token = ..
\* (FinalizeKeepName: the statement without the username assignment;
\* FinalizeAnyPending: the WHERE clause widened to every unverified row)
FinalizeAnyPending(rows, tok, name) ==
    {IF r.token = tok \/ ~r.verified
       THEN [r EXCEPT !.verified = TRUE, !.mediawiki_username = name]
       ELSE r : r \in rows}
FinalizeKeepName(rows, tok, name) ==
    {IF r.token = tok THEN [r EXCEPT !.verified = TRUE] ELSE r : r \in rows}
FinalizeUpdate(rows, tok, name) ==
    {IF r.token = tok
       THEN [r EXCEPT !.verified = TRUE, !.mediawiki_username = name]
       ELSE r : r \in rows}

\* DELETE FROM links WHERE verified = FALSE AND created_at < expiry
\* (PurgeAtOrBefore: the comparison written <=)
PurgeAtOrBefore(rows, expiry) ==
    {r \in rows : r.verified = FALSE /\ r.created_at <= expiry}
Purgeable(rows, expiry) ==
    {r \in rows : r.verified = FALSE /\ r.created_at < expiry}

DeleteById(rows, id) == {r \in rows : r.discord_id # id}

\* ------------------------------------------------------ verify run state
FreshContext(u) ==
    [state |-> "INITIAL", user |-> u, token |-> NoToken,
     error_message |-> NULL, inline |-> NULL,
     stmt |-> "none", call_now |-> 0, raised |-> FALSE, reply |-> "none"]
\* stmt: the statement create_verification_token executes next while the
\* run is in CREATING_TOKEN, the last one it executed afterwards
\* raised: an exception left process(); reply: what the verify command did
\* with the embed process() returned, once it has returned

NoContext == [FreshContext(0) EXCEPT !.state = "NONE"]

\* the link tokens that reached a user: those a run sent in its DM
SentTokens ==
    {ctx[r].token : r \in {q \in Runs : /\ ctx[q].state = "COMPLETED"
                                        /\ ctx[q].token # NoToken}}

\* expired, dup: history of the callback in flight (not program state)
\* key: the stashed request_token_key
NoKey == 0
NoSession ==
    [pc |-> "none", token |-> NoToken, username |-> NULL, outcome |-> NULL,
     expired |-> FALSE, dup |-> FALSE, key |-> NoKey]

\* grant_roles_loop not started yet
NoSweep == [pc |-> "idle", snapshot |-> {}, todo |-> {}, failed |-> {}]

\* no invocation of verified, unverify or lookup yet
NoMember == 0
NoCommand ==
    [name |-> "none", author |-> 0, admin |-> FALSE, target |-> NoMember,
     wiki |-> NULL, pc |-> "idle", response |-> NULL]

Init ==
    /\ links = {}
    /\ now = 0
    /\ ctx = [r \in Runs |-> NoContext]
    /\ sess = [s \in Sessions |-> NoSession]
    /\ deleted_count = 0
    /\ cmd = NoCommand
    /\ roles = {}
    /\ sweep = NoSweep

\* ------------------------------------------------------- the verify run
\* VerificationService.process_verification: a new context in INITIAL
StartVerify(r, u) ==
    /\ ctx[r].state = "NONE"
    /\ ctx' = [ctx EXCEPT ![r] = FreshContext(u)]
    /\ UNCHANGED <<links, now, sess, deleted_count, cmd, roles, sweep>>

TransitionToCheckingStatus(r) ==
    /\ ctx[r].state = "INITIAL"
    /\ ctx' = [ctx EXCEPT ![r].state = "CHECKING_STATUS"]
    /\ UNCHANGED <<links, now, sess, deleted_count, cmd, roles, sweep>>

\* get_user_status: the row's verified flag; None when there is no row and
\* also when the query raised (the exception is caught and printed)
\* (GetUserStatusRowOnly: the flag of the fetched row not looked at)
GetUserStatusRowOnly(rows, id, fail) ==
    IF fail \/ SelectById(rows, id) = {} THEN "none" ELSE "unverified"
GetUserStatus(rows, id, fail) ==
    IF fail \/ SelectById(rows, id) = {} THEN "none"
    ELSE IF \E r \in SelectById(rows, id) : r.verified THEN "verified"
    ELSE "unverified"

\* fail: the store query raises; hfail: the response handler raises
HandleStatusCheck(r, fail, hfail) ==
    /\ ctx[r].state = "CHECKING_STATUS"
    /\ LET status == GetUserStatus(links, ctx[r].user, fail)
           c == ctx[r]
       IN  ctx' = [ctx EXCEPT ![r] =
                IF status = "verified"
                  THEN IF hfail
                         THEN [c EXCEPT !.state = "ERROR",
                                        !.error_message = "status_check_failed"]
                         ELSE [c EXCEPT !.state = "COMPLETED",
                                        !.inline = "already_verified"]
                  ELSE [c EXCEPT !.state = "TESTING_DM_PERMISSIONS"]]
    /\ UNCHANGED <<links, now, sess, deleted_count, cmd, roles, sweep>>

\* res: what user.send / test_message.delete do
\* (HandleDmPermissionTestNoForbidden: the handler without its
\* except discord.Forbidden clause)
HandleDmPermissionTestNoForbidden(r, res, hfail) ==
    /\ ctx[r].state = "TESTING_DM_PERMISSIONS"
    /\ ~ctx[r].raised
    /\ ctx' = [ctx EXCEPT ![r] =
            IF res = "ok" THEN [@ EXCEPT !.state = "CREATING_TOKEN"]
            ELSE [@ EXCEPT !.state = "ERROR",
                           !.error_message = "dm_test_failed"]]
    /\ UNCHANGED <<links, now, sess, deleted_count, cmd, roles, sweep>>
HandleDmPermissionTest(r, res, hfail) ==
    /\ ctx[r].state = "TESTING_DM_PERMISSIONS"
    /\ ~ctx[r].raised
    /\ ctx' = [ctx EXCEPT ![r] =
            CASE res = "ok" -> [@ EXCEPT !.state = "CREATING_TOKEN"]
              [] res = "forbidden" ->
                    \* a raise inside the except block leaves process()
                    IF hfail THEN [@ EXCEPT !.raised = TRUE]
                    ELSE [@ EXCEPT !.state = "COMPLETED",
                                   !.inline = "enable_dms"]
              [] OTHER -> [@ EXCEPT !.state = "ERROR",
                                    !.error_message = "dm_test_failed"]]
    /\ UNCHANGED <<links, now, sess, deleted_count, cmd, roles, sweep>>

\* _handle_token_creation after create_verification_token returned None
ReturnNone(c, hfail) ==
    LET d == [c EXCEPT !.call_now = 0, !.token = NoToken]
    IN  IF hfail
          THEN [d EXCEPT !.state = "ERROR",
                         !.error_message = "token_creation_failed"]
          ELSE [d EXCEPT !.state = "COMPLETED", !.inline = "pending"]

\* _handle_token_creation after create_verification_token returned its token
ReturnToken(c, tok) ==
    [c EXCEPT !.call_now = 0, !.token = tok,
              !.state = "SENDING_VERIFICATION"]

\* create_verification_token up to the SELECT and the decisions on its row
\* (IssueSelectIgnoringVerified: the decisions without the test of verified)
IssueSelectIgnoringVerified(r, fail, hfail) ==
    /\ ctx[r].state = "CREATING_TOKEN"
    /\ ctx[r].stmt = "none"
    /\ LET c == [ctx[r] EXCEPT !.call_now = now, !.stmt = "select"]
           result == SelectById(links, c.user)
       IN  ctx' = [ctx EXCEPT ![r] =
                IF fail THEN ReturnNone(c, hfail)
                ELSE IF result = {} THEN [c EXCEPT !.stmt = "insert"]
                ELSE IF \E row \in result : Recent(row.created_at, c.call_now)
                  THEN ReturnNone(c, hfail)
                ELSE [c EXCEPT !.stmt = "update"]]
    /\ UNCHANGED <<links, now, sess, deleted_count, cmd, roles, sweep>>
IssueSelect(r, fail, hfail) ==
    /\ ctx[r].state = "CREATING_TOKEN"
    /\ ctx[r].stmt = "none"
    /\ LET c == [ctx[r] EXCEPT !.call_now = now, !.stmt = "select"]
           result == SelectById(links, c.user)
       IN  ctx' = [ctx EXCEPT ![r] =
                IF fail THEN ReturnNone(c, hfail)
                ELSE IF result = {} THEN [c EXCEPT !.stmt = "insert"]
                ELSE IF \E row \in result : row.verified
                  THEN ReturnNone(c, hfail)
                ELSE IF \E row \in result : Recent(row.created_at, c.call_now)
                  THEN ReturnNone(c, hfail)
                ELSE [c EXCEPT !.stmt = "update"]]
    /\ UNCHANGED <<links, now, sess, deleted_count, cmd, roles, sweep>>

\* the UPDATE or INSERT of create_verification_token, its commit and return
IssueWrite(r, fail, hfail) ==
    /\ ctx[r].state = "CREATING_TOKEN"
    /\ ctx[r].stmt \in {"update", "insert"}
    /\ LET c == ctx[r]
           token == FreshToken(r)
           raises == \/ fail
                     \/ /\ c.stmt = "insert"
                        /\ PrimaryKeyViolation(links, c.user)
       IN  /\ links' = IF raises THEN links
                       ELSE IF c.stmt = "update"
                         THEN UpdateToken(links, c.user, token, c.call_now)
                         ELSE InsertLink(links, c.user, token, c.call_now)
           /\ ctx' = [ctx EXCEPT ![r] =
                    IF raises THEN ReturnNone(c, hfail)
                    ELSE ReturnToken(c, token)]
    /\ UNCHANGED <<now, sess, deleted_count, cmd, roles, sweep>>

\* res: what user.send(embed=verification_embed) does
\* (HandleVerificationSendingForbiddenCompletes: discord.Forbidden handled
\* as the DM probe handles it)
HandleVerificationSendingForbiddenCompletes(r, res) ==
    /\ ctx[r].state = "SENDING_VERIFICATION"
    /\ ctx' = [ctx EXCEPT ![r] =
            IF res \in {"ok", "forbidden"} THEN [@ EXCEPT !.state = "COMPLETED"]
            ELSE [@ EXCEPT !.state = "ERROR",
                           !.error_message = "send_failed"]]
    /\ UNCHANGED <<links, now, sess, deleted_count, cmd, roles, sweep>>
\* (HandleVerificationSendingNoMessage: the except clauses without their
\* error_message assignments)
HandleVerificationSendingNoMessage(r, res) ==
    /\ ctx[r].state = "SENDING_VERIFICATION"
    /\ ctx' = [ctx EXCEPT ![r] =
            IF res = "ok" THEN [@ EXCEPT !.state = "COMPLETED"]
            ELSE [@ EXCEPT !.state = "ERROR"]]
    /\ UNCHANGED <<links, now, sess, deleted_count, cmd, roles, sweep>>
HandleVerificationSending(r, res) ==
    /\ ctx[r].state = "SENDING_VERIFICATION"
    /\ ctx' = [ctx EXCEPT ![r] =
            CASE res = "ok" -> [@ EXCEPT !.state = "COMPLETED"]
              [] res = "forbidden" -> [@ EXCEPT !.state = "ERROR",
                                                !.error_message = "link_not_sent"]
              [] OTHER -> [@ EXCEPT !.state = "ERROR",
                                    !.error_message = "send_failed"]]
    /\ UNCHANGED <<links, now, sess, deleted_count, cmd, roles, sweep>>

\* ------------------------------------------------- the bot's commands
\* what process() returns: the error embed in ERROR, the success embed in
\* COMPLETED with a token, None otherwise
\* (ResultEmbedAlways: the success embed returned for every COMPLETED)
ResultEmbedAlways(c) == c.state \in {"ERROR", "COMPLETED"}
ResultEmbed(c) ==
    \/ c.state = "ERROR"
    \/ c.state = "COMPLETED" /\ c.token # NoToken

\* the text of the error embed process() returns in ERROR
UnknownError == "unknown_error"
ErrorEmbedText(c) ==
    IF c.error_message # NULL THEN c.error_message ELSE UnknownError

\* the messages the invoking user got: the one sent through the response
\* handler and the one sent by the command
Messages(c) ==
    (IF c.inline # NULL THEN 1 ELSE 0)
        + (IF c.reply \in {"result", "error"} THEN 1 ELSE 0)

SendResults == {"ok", "retry", "fail"}

\* VerificationCommands.verify after process_verification: send: what the
\* ctx.send calls do ("retry": the one in the try block raises, the one in
\* the except block delivers; "fail": every one raises)
VerifyReply(r, send) ==
    /\ ctx[r].reply = "none"
    /\ ctx[r].state \in {"COMPLETED", "ERROR"} \/ ctx[r].raised
    /\ ctx[r].raised => send # "retry"
    /\ ctx' = [ctx EXCEPT ![r].reply =
            IF ctx[r].raised
              THEN IF send = "ok" THEN "error" ELSE "failed"
            ELSE IF ~ResultEmbed(ctx[r]) THEN "nothing"
            ELSE CASE send = "ok" -> "result"
                   [] send = "retry" -> "error"
                   [] OTHER -> "failed"]
    /\ UNCHANGED <<links, now, sess, deleted_count, cmd, roles, sweep>>

\* the methods class VerificationService defines
ServiceMethods ==
    {"process_verification", "get_verification_status",
     "remove_verification", "get_verified_users"}

CommandNames == {"verified", "unverify", "lookup"}

\* a command is invoked and deferred; verified takes no arguments
Invoke(name, author, admin, target, wiki) ==
    /\ cmd.pc # "deferred"
    /\ name = "verified" => target = NoMember /\ wiki = NULL
    /\ cmd' = [name |-> name, author |-> author, admin |-> admin,
               target |-> target, wiki |-> wiki, pc |-> "deferred",
               response |-> NULL]
    /\ UNCHANGED <<links, now, ctx, sess, deleted_count, roles, sweep>>

\* the command returned after ctx.send(embed), or an exception left it
Finish(embed, send) ==
    [NoCommand EXCEPT !.name = cmd.name,
                      !.pc = IF send = "ok" THEN "responded" ELSE "send_failed",
                      !.response = IF send = "ok" THEN embed ELSE NULL]
Raise == [NoCommand EXCEPT !.name = cmd.name, !.pc = "raised"]

\* self.verification_service.<method>(..): a method the class does not
\* define raises AttributeError
ServiceHas(methods) == methods \subseteq ServiceMethods
CallService(methods, result) == IF ServiceHas(methods) THEN result ELSE Raise

\* VerificationCommands._has_bot_admin_permissions: the invoking member
\* holds one of Config.ALLOWED_ROLE_IDS
\* (EveryoneIsAdmin: the check answering True for every member)
EveryoneIsAdmin(c) == TRUE
HasBotAdminPermissions(c) == c.admin

\* VerificationCommands.check_verified; a failure of get_verified_users
\* gives the empty list, a failed send of the list is answered in the
\* except block
CheckVerified(send) ==
    /\ cmd.pc = "deferred"
    /\ cmd.name = "verified"
    /\ cmd' = IF ~HasBotAdminPermissions(cmd)
                THEN Finish("permission_denied", send)
              ELSE CallService({"get_verified_users"},
                     IF send = "retry" THEN Finish("database_error", "ok")
                     ELSE Finish("verified_list", send))
    /\ UNCHANGED <<links, now, ctx, sess, deleted_count, roles, sweep>>

\* the lower-case form of a wiki username
Lower(name) ==
    CASE name = "AliceWiki" -> "alicewiki"
      [] name = "Bob" -> "bob"
      [] OTHER -> name

\* stored ILIKE pattern: the pattern "%" matches every string, "_" in a
\* pattern matches any one character, and a pattern without wildcard
\* characters matches the strings equal to it up to case
AnyString == "%"
\* a pattern with the wildcard "_", which stands for any one character
AnyCharOb == "_ob"
ILike(stored, pattern) ==
    \/ pattern = AnyString
    \/ pattern = AnyCharOb /\ Lower(stored) = "bob"
    \/ Lower(stored) = Lower(pattern)

\* rows whose mediawiki_username ILIKE the pattern; a NULL username
\* matches no pattern
SelectByWikiName(rows, wiki) ==
    {r \in rows : /\ r.mediawiki_username # NULL
                  /\ ILike(r.mediawiki_username, wiki)}
DeleteByWikiName(rows, wiki) == rows \ SelectByWikiName(rows, wiki)

\* VerificationCommands.unverify; fail: the DELETE raises
UnverifyCommand(fail, send) ==
    /\ cmd.pc = "deferred"
    /\ cmd.name = "unverify"
    /\ send # "retry"
    /\ LET both == cmd.target # NoMember /\ cmd.wiki # NULL
           self == cmd.target = NoMember /\ cmd.wiki = NULL
           id == IF self THEN cmd.author ELSE cmd.target
           found == SelectByWikiName(links, cmd.wiki) # {}
           byName == {"get_discord_id", "remove_verification_by_wiki_username"}
                        \cup (IF found THEN {"get_mediawiki_username"} ELSE {})
       IN  IF both THEN
                /\ cmd' = Finish("invalid_usage", send)
                /\ links' = links
           ELSE IF self \/ (HasBotAdminPermissions(cmd)
                               /\ cmd.target # NoMember) THEN
                \* remove_verification: rowcount > 0, False when it raised
                /\ links' = IF fail THEN links ELSE DeleteById(links, id)
                /\ cmd' = CallService({"remove_verification"},
                            Finish(IF fail \/ SelectById(links, id) = {}
                                     THEN IF self THEN "not_verified"
                                          ELSE "user_not_found"
                                   ELSE IF self THEN "verification_removed"
                                   ELSE "user_unverified", send))
           ELSE IF ~HasBotAdminPermissions(cmd) THEN
                /\ cmd' = Finish("permission_denied", send)
                /\ links' = links
           ELSE
                /\ links' = IF ServiceHas(byName) /\ ~fail
                              THEN DeleteByWikiName(links, cmd.wiki)
                            ELSE links
                /\ cmd' = CallService(byName,
                            Finish(IF fail \/ ~found THEN "user_not_found"
                                   ELSE "user_unverified_wiki_name", send))
    /\ UNCHANGED <<now, ctx, sess, deleted_count, roles, sweep>>

\* VerificationCommands.lookup
LookupCommand(send) ==
    /\ cmd.pc = "deferred"
    /\ cmd.name = "lookup"
    /\ send # "retry"
    /\ LET found == SelectByWikiName(links, cmd.wiki) # {}
       IN  cmd' =
            IF (cmd.target # NoMember) = (cmd.wiki # NULL)
              THEN Finish("invalid_usage", send)
            ELSE IF cmd.target # NoMember
              THEN CallService({"get_mediawiki_username"},
                     Finish(IF \E r \in SelectById(links, cmd.target) :
                                  r.mediawiki_username # NULL
                              THEN "mediawiki_username_found"
                              ELSE "not_linked", send))
            ELSE CallService({"get_discord_id"} \cup
                        (IF found THEN {"get_mediawiki_username"} ELSE {}),
                   Finish(IF found THEN "discord_user_found"
                          ELSE "not_linked", send))
    /\ UNCHANGED <<links, now, ctx, sess, deleted_count, roles, sweep>>

\* ------------------------------------------------------ the web requests
\* the request token the provider issues to the n-th /verify of a session:
\* no two requests get the same one
RequestKey(s, n) == (s - 1) * MaxKeys + n
OAuthTokens ==
    {NoKey} \cup {RequestKey(s, n) : s \in Sessions, n \in 1..MaxKeys}
NextKey(s) ==
    IF sess[s].key = NoKey THEN RequestKey(s, 1) ELSE sess[s].key + 1

\* /verify?token=: fetch a request token and stash it with the link token
\* in the requester's session, in place of what was stashed before
VerifyEntry(s, tok) ==
    /\ sess[s].pc # "finalize"
    /\ NextKey(s) <= RequestKey(s, MaxKeys)
    /\ sess' = [sess EXCEPT ![s] = [NoSession EXCEPT !.pc = "stashed",
                                                     !.token = tok,
                                                     !.key = NextKey(s)]]
    /\ UNCHANGED <<links, now, ctx, deleted_count, cmd, roles, sweep>>

\* the checks of /verify/callback before it contacts the provider; /verify
\* stashes request_token_key, request_token_secret and token together
\* (CallbackChecksNoMismatch: oauth_token not compared with the stashed key)
CallbackChecksNoMismatch(s, oauth_token, verifier) ==
    IF oauth_token = NoKey \/ ~verifier THEN "missing_oauth_parameters"
    ELSE IF sess[s].pc = "none" THEN "session_missing"
    ELSE "pass"
CallbackChecks(s, oauth_token, verifier) ==
    IF oauth_token = NoKey \/ ~verifier THEN "missing_oauth_parameters"
    ELSE IF sess[s].pc = "none" THEN "session_missing"
    ELSE IF oauth_token # sess[s].key THEN "token_mismatch"
    ELSE "pass"

\* /verify/callback?oauth_token=..&oauth_verifier=.. returning early
CallbackRejected(s, oauth_token, verifier) ==
    /\ sess[s].pc # "finalize"
    /\ CallbackChecks(s, oauth_token, verifier) # "pass"
    /\ sess' = [sess EXCEPT ![s].outcome =
                    CallbackChecks(s, oauth_token, verifier)]
    /\ UNCHANGED <<links, now, ctx, deleted_count, cmd, roles, sweep>>

\* /verify/callback past its checks, up to the identity fetch; res: what the
\* provider does
\* (CallbackFetchInvalidating: a provider failure deletes the record of the
\* link token)
CallbackFetchInvalidating(s, res, name) ==
    /\ sess[s].pc = "stashed"
    /\ sess' = [sess EXCEPT ![s] =
            IF res = "ok"
              THEN [@ EXCEPT !.pc = "finalize", !.username = name,
                             !.outcome = NULL,
                             !.expired = \E r \in links :
                                 /\ r.token = sess[s].token
                                 /\ now - r.created_at > JWT_EXP_DELTA_SECONDS]
              ELSE [@ EXCEPT !.outcome = res]]
    /\ links' = IF res = "ok" THEN links
                ELSE {r \in links : r.token # sess[s].token}
    /\ UNCHANGED <<now, ctx, deleted_count, cmd, roles, sweep>>
CallbackFetch(s, res, name) ==
    /\ sess[s].pc = "stashed"
    /\ sess' = [sess EXCEPT ![s] =
            IF res = "ok"
              THEN [@ EXCEPT !.pc = "finalize", !.username = name,
                             !.outcome = NULL,
                             !.expired = \E r \in links :
                                 /\ r.token = sess[s].token
                                 /\ now - r.created_at > JWT_EXP_DELTA_SECONDS]
              ELSE [@ EXCEPT !.outcome = res]]
    /\ UNCHANGED <<links, now, ctx, deleted_count, cmd, roles, sweep>>

\* the UPDATE of /verify/callback, its commit and the page returned
CallbackFinalize(s, fail) ==
    /\ sess[s].pc = "finalize"
    /\ links' = IF fail THEN links
                ELSE FinalizeUpdate(links, sess[s].token, sess[s].username)
    /\ sess' = [o \in Sessions |->
            IF o = s
              THEN [NoSession EXCEPT !.pc = "done", !.token = sess[s].token,
                        !.key = sess[s].key,
                        !.outcome = IF fail THEN "database_update_failed"
                                    ELSE "success"]
            ELSE IF /\ ~fail
                    /\ sess[o].pc = "finalize"
                    /\ sess[o].token = sess[s].token
                    /\ \E r \in links : r.token = sess[s].token /\ ~r.verified
              THEN [sess[o] EXCEPT !.dup = TRUE]
            ELSE sess[o]]
    /\ UNCHANGED <<now, ctx, deleted_count, cmd, roles, sweep>>

\* ------------------------------------------------- maintenance and time
\* BotTasks.purge_old_links -> purge_old_tokens
Purge(fail) ==
    /\ LET expiry == now - TOKEN_EXPIRY_HOURS * SecondsPerHour
           gone == IF fail THEN {} ELSE Purgeable(links, expiry)
       IN  /\ links' = links \ gone
           /\ deleted_count' = Cardinality(gone)
    /\ UNCHANGED <<now, ctx, sess, cmd, roles, sweep>>

\* remove_verification
Unverify(id, fail) ==
    /\ links' = IF fail THEN links ELSE DeleteById(links, id)
    /\ UNCHANGED <<now, ctx, sess, deleted_count, cmd, roles, sweep>>

\* the strings remove_verification_by_wiki_username can be given: a
\* stored name, a stored name in another case, and patterns with wildcards
Patterns == WikiNames \cup {"alicewiki", AnyString, AnyCharOb}

\* remove_verification_by_wiki_username; fail: the DELETE raises
RemoveByWikiName(wiki, fail) ==
    /\ links' = IF fail THEN links ELSE DeleteByWikiName(links, wiki)
    /\ UNCHANGED <<now, ctx, sess, deleted_count, cmd, roles, sweep>>

Tick ==
    /\ now + TickStep <= MaxTime
    /\ now' = now + TickStep
    /\ UNCHANGED <<links, ctx, sess, deleted_count, cmd, roles, sweep>>

\* ------------------------------------------------ guilds and the role job
\* the guilds the bot is in and their members: guild 1 holds every Discord
\* id that runs commands, the further guilds hold member 1 alone, and the
\* ids above MaxIds that the store may hold are members of no guild
Guilds == 1..MaxGuilds
GuildMembers(g) == IF g = 1 THEN DiscordIds ELSE {1}
Seats == {p \in Guilds \X StoreIds : p[2] \in GuildMembers(p[1])}

\* guild.get_member(discord_id) found a member
\* (GetMemberAnyone: an id the guild does not hold resolved all the same)
GetMemberAnyone(g, id) == TRUE
GetMember(g, id) == id \in GuildMembers(g)

\* BotTasks._has_wiki_role
HasWikiRole(g, id) == <<g, id>> \in roles

\* the wiki accounts that are autoconfirmed
Autoconfirmed == {"AliceWiki"}

\* DatabaseManager.get_verified_users; [] when the SELECT raised
GetVerifiedUsers(rows, fail) ==
    IF fail THEN {}
    ELSE {<<r.discord_id, r.mediawiki_username>> :
             r \in {x \in rows : x.verified}}

CheckResults == {"ok", "error"}
GrantResults == {"ok", "forbidden", "error"}

\* grant_roles_loop up to the loops: the snapshot of the verified records;
\* todo: the <<guild, discord_id>> pairs the loops have yet to reach
\* (the job is modelled with WIKI_AUTHOR_ROLE_ID configured)
SweepStart(fail) ==
    /\ sweep.pc # "running"
    /\ LET snapshot == GetVerifiedUsers(links, fail)
           todo == Guilds \X {u[1] : u \in snapshot}
       IN  sweep' = [pc |-> IF todo = {} THEN "done" ELSE "running",
                     snapshot |-> snapshot, todo |-> todo, failed |-> {}]
    /\ UNCHANGED <<links, now, ctx, sess, deleted_count, cmd, roles>>

\* the outcome of one pass of the inner loop body for discord_id in guild:
\* "skipped", "failed" (an except clause printed the error), "waiting"
\* (not autoconfirmed yet) or "granted"
\* check: what the autoconfirmed request does; grant: what add_roles does
MemberOutcome(g, id, name, check, grant) ==
    IF ~GetMember(g, id) \/ HasWikiRole(g, id) THEN "skipped"
    ELSE IF ~ServiceHas({"is_user_autoconfirmed"}) \/ check = "error"
      THEN "failed"
    ELSE IF name \notin Autoconfirmed THEN "waiting"
    ELSE IF grant = "ok" THEN "granted"
    ELSE "failed"

\* (SweepMemberAborting: the loop body without its try blocks, an error
\* ends the sweep)
SweepMemberAborting(g, id, check, grant) ==
    /\ sweep.pc = "running"
    /\ <<g, id>> \in sweep.todo
    /\ \A p \in sweep.todo : g <= p[1]
    /\ \E u \in sweep.snapshot :
        /\ u[1] = id
        /\ LET outcome == MemberOutcome(g, id, u[2], check, grant)
               rest == IF outcome = "failed" THEN {}
                       ELSE sweep.todo \ {<<g, id>>}
           IN  /\ roles' = IF outcome = "granted"
                             THEN roles \cup {<<g, id>>} ELSE roles
               /\ sweep' = [sweep EXCEPT
                     !.todo = rest,
                     !.failed = IF outcome = "failed"
                                  THEN @ \cup {<<g, id>>} ELSE @,
                     !.pc = IF rest = {} THEN "done" ELSE "running"]
    /\ UNCHANGED <<links, now, ctx, sess, deleted_count, cmd>>

\* one pass of the inner loop body: guilds in order, the snapshot's
\* records in the order the SELECT returned them
SweepMember(g, id, check, grant) ==
    /\ sweep.pc = "running"
    /\ <<g, id>> \in sweep.todo
    /\ \A p \in sweep.todo : g <= p[1]
    /\ \E u \in sweep.snapshot :
        /\ u[1] = id
        /\ LET outcome == MemberOutcome(g, id, u[2], check, grant)
               rest == sweep.todo \ {<<g, id>>}
           IN  /\ roles' = IF outcome = "granted"
                             THEN roles \cup {<<g, id>>} ELSE roles
               /\ sweep' = [sweep EXCEPT
                     !.todo = rest,
                     !.failed = IF outcome = "failed"
                                  THEN @ \cup {<<g, id>>} ELSE @,
                     !.pc = IF rest = {} THEN "done" ELSE "running"]
    /\ UNCHANGED <<links, now, ctx, sess, deleted_count, cmd>>

DmResults == {"ok", "forbidden", "error"}
ProviderResults == {"ok", "token_exchange_failed", "identity_fetch_failed"}
Members == {NoMember} \cup DiscordIds
\* the wiki usernames given to unverify and lookup: none, a stored name,
\* a stored name in another case, the pattern that matches every name
WikiArgs == {NULL} \cup WikiNames \cup {"alicewiki", AnyString}

Next ==
    \/ \E r \in Runs, u \in DiscordIds : StartVerify(r, u)
    \/ \E r \in Runs : TransitionToCheckingStatus(r)
    \/ \E r \in Runs, fail, hfail \in BOOLEAN : HandleStatusCheck(r, fail, hfail)
    \/ \E r \in Runs, res \in DmResults, hfail \in BOOLEAN :
            HandleDmPermissionTest(r, res, hfail)
    \/ \E r \in Runs, fail, hfail \in BOOLEAN : IssueSelect(r, fail, hfail)
    \/ \E r \in Runs, fail, hfail \in BOOLEAN : IssueWrite(r, fail, hfail)
    \/ \E r \in Runs, res \in DmResults : HandleVerificationSending(r, res)
    \/ \E s \in Sessions, tok \in SentTokens \cup {BogusToken} :
            VerifyEntry(s, tok)
    \/ \E s \in Sessions, res \in ProviderResults, name \in WikiNames :
            CallbackFetch(s, res, name)
    \/ \E s \in Sessions, fail \in BOOLEAN : CallbackFinalize(s, fail)
    \/ \E fail \in BOOLEAN : Purge(fail)
    \/ \E id \in DiscordIds, fail \in BOOLEAN : Unverify(id, fail)
    \/ Tick
    \/ \E r \in Runs, send \in SendResults : VerifyReply(r, send)
    \/ \E s \in Sessions, oauth_token \in OAuthTokens, verifier \in BOOLEAN :
            CallbackRejected(s, oauth_token, verifier)
    \/ \E name \in CommandNames, author \in DiscordIds, admin \in BOOLEAN,
          target \in Members, wiki \in WikiArgs :
            Invoke(name, author, admin, target, wiki)
    \/ \E send \in SendResults : CheckVerified(send)
    \/ \E fail \in BOOLEAN, send \in SendResults : UnverifyCommand(fail, send)
    \/ \E send \in SendResults : LookupCommand(send)
    \/ \E fail \in BOOLEAN : SweepStart(fail)
    \/ \E g \in Guilds, id \in StoreIds, check \in CheckResults,
          grant \in GrantResults : SweepMember(g, id, check, grant)
    \/ \E wiki \in Patterns, fail \in BOOLEAN : RemoveByWikiName(wiki, fail)

Spec == Init /\ [][Next]_vars

\* The same system with one requester on the web side.
NextOneSession ==
    \/ \E r \in Runs, u \in DiscordIds : StartVerify(r, u)
    \/ \E r \in Runs : TransitionToCheckingStatus(r)
    \/ \E r \in Runs, fail, hfail \in BOOLEAN : HandleStatusCheck(r, fail, hfail)
    \/ \E r \in Runs, res \in DmResults, hfail \in BOOLEAN :
            HandleDmPermissionTest(r, res, hfail)
    \/ \E r \in Runs, fail, hfail \in BOOLEAN : IssueSelect(r, fail, hfail)
    \/ \E r \in Runs, fail, hfail \in BOOLEAN : IssueWrite(r, fail, hfail)
    \/ \E r \in Runs, res \in DmResults : HandleVerificationSending(r, res)
    \/ \E tok \in SentTokens \cup {BogusToken} : VerifyEntry(1, tok)
    \/ \E res \in ProviderResults, name \in WikiNames : CallbackFetch(1, res, name)
    \/ \E fail \in BOOLEAN : CallbackFinalize(1, fail)
    \/ \E fail \in BOOLEAN : Purge(fail)
    \/ \E id \in DiscordIds, fail \in BOOLEAN : Unverify(id, fail)
    \/ Tick

SpecOneSession == Init /\ [][NextOneSession]_vars

\* The same system with one verify run and every requester.
NextOneRun ==
    \/ \E u \in DiscordIds : StartVerify(1, u)
    \/ TransitionToCheckingStatus(1)
    \/ \E fail, hfail \in BOOLEAN : HandleStatusCheck(1, fail, hfail)
    \/ \E res \in DmResults, hfail \in BOOLEAN : HandleDmPermissionTest(1, res, hfail)
    \/ \E fail, hfail \in BOOLEAN : IssueSelect(1, fail, hfail)
    \/ \E fail, hfail \in BOOLEAN : IssueWrite(1, fail, hfail)
    \/ \E res \in DmResults : HandleVerificationSending(1, res)
    \/ \E s \in Sessions, tok \in SentTokens \cup {BogusToken} :
            VerifyEntry(s, tok)
    \/ \E s \in Sessions, res \in ProviderResults, name \in WikiNames :
            CallbackFetch(s, res, name)
    \/ \E s \in Sessions, fail \in BOOLEAN : CallbackFinalize(s, fail)
    \/ \E fail \in BOOLEAN : Purge(fail)
    \/ \E id \in DiscordIds, fail \in BOOLEAN : Unverify(id, fail)
    \/ Tick

SpecOneRun == Init /\ [][NextOneRun]_vars

\* Specifications that start from any table the service can have built: at
\* most one row per Discord id, a username on exactly the verified rows, no
\* row created in the future, tokens that differ from row to row and from
\* the tokens still to be drawn.
TimeGrid == {t \in 0..MaxTime : t % TickStep = 0}
StoredToken(id) == BogusToken + id
StoredName(id) == IF id = 1 THEN "AliceWiki" ELSE "Bob"

\* per Discord id: no row, or a row's created_at and verified
Absent == <<>>
Cells(t) == {Absent} \cup ({c \in TimeGrid : c <= t} \X BOOLEAN)
TableOf(f) ==
    {Row(id, IF f[id][2] THEN StoredName(id) ELSE NULL, StoredToken(id),
         f[id][1], f[id][2]) : id \in {i \in StoreIds : f[i] # Absent}}

InitStore ==
    /\ now \in TimeGrid
    /\ \E f \in [StoreIds -> Cells(now)] : links = TableOf(f)
    /\ ctx = [r \in Runs |-> NoContext]
    /\ sess = [s \in Sessions |-> NoSession]
    /\ deleted_count = 0
    /\ cmd = NoCommand
    /\ roles = {}
    /\ sweep = NoSweep

\* the purge job alone
NextPurge ==
    \/ \E fail \in BOOLEAN : Purge(fail)
    \/ Tick

SpecPurge == InitStore /\ [][NextPurge]_vars

\* the two removals of links alone, against any table
NextRemoval ==
    \/ \E wiki \in Patterns, fail \in BOOLEAN : RemoveByWikiName(wiki, fail)
    \/ \E id \in DiscordIds, fail \in BOOLEAN : Unverify(id, fail)

SpecRemoval == InitStore /\ [][NextRemoval]_vars

\* one verify run against such a table, with the deletions that can fall
\* between its statements
NextIssue ==
    \/ \E u \in DiscordIds : StartVerify(1, u)
    \/ TransitionToCheckingStatus(1)
    \/ \E fail, hfail \in BOOLEAN : HandleStatusCheck(1, fail, hfail)
    \/ \E res \in DmResults, hfail \in BOOLEAN : HandleDmPermissionTest(1, res, hfail)
    \/ \E fail, hfail \in BOOLEAN : IssueSelect(1, fail, hfail)
    \/ \E fail, hfail \in BOOLEAN : IssueWrite(1, fail, hfail)
    \/ \E res \in DmResults : HandleVerificationSending(1, res)
    \/ \E fail \in BOOLEAN : Purge(fail)
    \/ \E id \in DiscordIds, fail \in BOOLEAN : Unverify(id, fail)
    \/ Tick

SpecIssue == InitStore /\ [][NextIssue]_vars

\* the tables InitStore draws, before any time has passed
InitFirst == InitStore /\ now = 0

\* what process() and the verify command do on their own: the event loop
\* runs the coroutine to its end, every await returns or raises
ProcessStep(r) ==
    \/ TransitionToCheckingStatus(r)
    \/ \E fail, hfail \in BOOLEAN : HandleStatusCheck(r, fail, hfail)
    \/ \E res \in DmResults, hfail \in BOOLEAN :
            HandleDmPermissionTest(r, res, hfail)
    \/ \E fail, hfail \in BOOLEAN : IssueSelect(r, fail, hfail)
    \/ \E fail, hfail \in BOOLEAN : IssueWrite(r, fail, hfail)
    \/ \E res \in DmResults : HandleVerificationSending(r, res)

\* one verify command from its invocation to its reply
NextVerify ==
    \/ \E u \in DiscordIds : StartVerify(1, u)
    \/ ProcessStep(1)
    \/ \E send \in SendResults : VerifyReply(1, send)
    \/ \E fail \in BOOLEAN : Purge(fail)
    \/ \E id \in DiscordIds, fail \in BOOLEAN : Unverify(id, fail)
    \/ Tick

SpecVerify ==
    /\ InitFirst
    /\ [][NextVerify]_vars
    /\ WF_vars(ProcessStep(1))
    /\ WF_vars(\E send \in SendResults : VerifyReply(1, send))

\* every command of the bot: one verify and, one invocation at a time,
\* verified, unverify and lookup
CommandStep ==
    \/ \E send \in SendResults : CheckVerified(send)
    \/ \E fail \in BOOLEAN, send \in SendResults : UnverifyCommand(fail, send)
    \/ \E send \in SendResults : LookupCommand(send)

NextCommands ==
    \/ \E name \in CommandNames, author \in DiscordIds, admin \in BOOLEAN,
          target \in Members, wiki \in WikiArgs :
            Invoke(name, author, admin, target, wiki)
    \/ CommandStep
    \/ \E u \in DiscordIds : StartVerify(1, u)
    \/ ProcessStep(1)
    \/ \E send \in SendResults : VerifyReply(1, send)

SpecCommands ==
    /\ InitFirst
    /\ [][NextCommands]_vars
    /\ WF_vars(CommandStep)
    /\ WF_vars(ProcessStep(1))
    /\ WF_vars(\E send \in SendResults : VerifyReply(1, send))

\* one verify run and the requesters' callbacks with every query string
NextWeb ==
    \/ \E u \in DiscordIds : StartVerify(1, u)
    \/ ProcessStep(1)
    \/ \E s \in Sessions, tok \in SentTokens \cup {BogusToken} :
            VerifyEntry(s, tok)
    \/ \E s \in Sessions, oauth_token \in OAuthTokens, verifier \in BOOLEAN :
            CallbackRejected(s, oauth_token, verifier)
    \/ \E s \in Sessions, res \in ProviderResults, name \in WikiNames :
            CallbackFetch(s, res, name)
    \/ \E s \in Sessions, fail \in BOOLEAN : CallbackFinalize(s, fail)

SpecWeb == Init /\ [][NextWeb]_vars

\* Specifications with guilds: any table at time 0, the wiki-author role
\* held by some of the guild members that have a verified record
InitRoles ==
    /\ now = 0
    /\ \E f \in [StoreIds -> Cells(0)] : links = TableOf(f)
    /\ ctx = [r \in Runs |-> NoContext]
    /\ sess = [s \in Sessions |-> NoSession]
    /\ deleted_count = 0
    /\ cmd = NoCommand
    /\ roles \in SUBSET {p \in Seats :
                           \E row \in links : /\ row.discord_id = p[2]
                                              /\ row.verified}
    /\ sweep = NoSweep

\* the role-grant job: tasks.loop starts a run when the last one returned
SweepStep ==
    \/ \E fail \in BOOLEAN : SweepStart(fail)
    \/ \E g \in Guilds, id \in StoreIds, check \in CheckResults,
          grant \in GrantResults : SweepMember(g, id, check, grant)

\* the role-grant job next to removals of records
NextSweep ==
    \/ SweepStep
    \/ \E id \in DiscordIds, fail \in BOOLEAN : Unverify(id, fail)

SpecSweep == InitRoles /\ [][NextSweep]_vars /\ WF_vars(SweepStep)

\* verified, unverify and lookup, one invocation at a time
NextModeration ==
    \/ \E name \in CommandNames, author \in DiscordIds, admin \in BOOLEAN,
          target \in Members, wiki \in WikiArgs :
            Invoke(name, author, admin, target, wiki)
    \/ CommandStep

SpecModeration == InitRoles /\ [][NextModeration]_vars

\* every verify run next to the maintenance of the table, from any table
\* at time 0
NextRuns ==
    \/ \E r \in Runs, u \in DiscordIds : StartVerify(r, u)
    \/ \E r \in Runs : ProcessStep(r)
    \/ \E fail \in BOOLEAN : Purge(fail)
    \/ \E id \in DiscordIds, fail \in BOOLEAN : Unverify(id, fail)
    \/ Tick

SpecRuns == InitFirst /\ [][NextRuns]_vars

\* every verify run and every requester, without the maintenance of the
\* table and with the clock at rest
NextLinking ==
    \/ \E r \in Runs, u \in DiscordIds : StartVerify(r, u)
    \/ \E r \in Runs : ProcessStep(r)
    \/ \E s \in Sessions, tok \in SentTokens \cup {BogusToken} :
            VerifyEntry(s, tok)
    \/ \E s \in Sessions, res \in ProviderResults, name \in WikiNames :
            CallbackFetch(s, res, name)
    \/ \E s \in Sessions, fail \in BOOLEAN : CallbackFinalize(s, fail)

SpecLinking == Init /\ [][NextLinking]_vars

\* ------------------------------------------------------------ properties
RowOf(id) == CHOOSE row \in links : row.discord_id = id
HasRow(id) == \E row \in links : row.discord_id = id
Pending(tok) == \E row \in links : row.token = tok /\ ~row.verified

\* C1: for an unverified record, a create_verification_token call made less
\* than 3600 s after created_at returns no token and leaves the table as it
\* is; a call made 3600 s or more after created_at goes on to its UPDATE,
\* which (when the store executes it on the row) stores the call's fresh
\* token, created_at = the call time and verified = FALSE, and returns the
\* token.
CooldownMonotonicity ==
    [][\A r \in Runs :
        LET u == ctx[r].user IN
        /\ ( /\ \E fail, hfail \in BOOLEAN : IssueSelect(r, fail, hfail)
             /\ HasRow(u)
             /\ ~RowOf(u).verified
             /\ now - RowOf(u).created_at < REISSUE_COOLDOWN )
           => /\ ctx'[r].token = NoToken
              /\ ctx'[r].state \in {"COMPLETED", "ERROR"}
              /\ links' = links
        /\ ( /\ \E hfail \in BOOLEAN : IssueSelect(r, FALSE, hfail)
             /\ HasRow(u)
             /\ ~RowOf(u).verified
             /\ now - RowOf(u).created_at >= REISSUE_COOLDOWN )
           => /\ ctx'[r].state = "CREATING_TOKEN"
              /\ ctx'[r].stmt = "update"
              /\ ctx'[r].call_now = now
              /\ links' = links
        /\ ( /\ \E hfail \in BOOLEAN : IssueWrite(r, FALSE, hfail)
             /\ ctx[r].stmt = "update"
             /\ HasRow(u) )
           => /\ ctx'[r].token = FreshToken(r)
              /\ ctx'[r].state = "SENDING_VERIFICATION"
              /\ \A row \in links : row.token # FreshToken(r)
              /\ links' = (links \ {RowOf(u)}) \cup
                    {Row(u, RowOf(u).mediawiki_username, FreshToken(r),
                         ctx[r].call_now, FALSE)}
      ]_vars

\* a rotation has happened next to another user's record: a run's UPDATE
\* stored its token on its user's pending row
CooldownWitness ==
    \E r \in Runs :
        /\ ctx[r].state = "SENDING_VERIFICATION"
        /\ ctx[r].stmt = "update"
        /\ \E row \in links : /\ row.token = ctx[r].token
                              /\ row.discord_id = ctx[r].user
                              /\ ~row.verified
                              /\ row.created_at >= REISSUE_COOLDOWN
        /\ \E other \in links : other.discord_id # ctx[r].user

\* C2: a verified record stays verified with the same token until an
\* unverify deletes it.
VerifiedIsTerminal ==
    [][\A row \in links :
        row.verified =>
            \/ \E q \in links' : /\ q.discord_id = row.discord_id
                                 /\ q.verified
                                 /\ q.token = row.token
            \/ \E fail \in BOOLEAN : Unverify(row.discord_id, fail)
      ]_vars

\* C3: a callback whose link token matches no record, or a verified record,
\* reports an error and changes no record.
InvalidTokenRejected ==
    [][\A s \in Sessions :
        ( /\ \E fail \in BOOLEAN : CallbackFinalize(s, fail)
          /\ ~Pending(sess[s].token) )
        => /\ sess'[s].outcome # "success"
           /\ links' = links
      ]_vars

\* C4: a callback whose link token belongs to a pending record created more
\* than the link TTL before the callback began is rejected and leaves that
\* record as it is.
ExpiredTokenRejected ==
    [][\A s \in Sessions :
        ( /\ \E fail \in BOOLEAN : CallbackFinalize(s, fail)
          /\ sess[s].expired
          /\ Pending(sess[s].token) )
        => /\ sess'[s].outcome # "success"
           /\ links' = links
      ]_vars

\* C5: of two concurrent callback completions with the same pending token,
\* the one that commits second reports success and writes nothing: the
\* record keeps the verified flag and username the first one stored.
IdempotentFinalization ==
    [][\A s \in Sessions :
        ( /\ CallbackFinalize(s, FALSE)
          /\ sess[s].dup )
        => /\ sess'[s].outcome = "success"
           /\ links' = links
      ]_vars

\* C6: while a verified record exists, no callback carrying its token
\* changes its wiki_username.
VerifiedTokenNotAccepted ==
    [][\A s \in Sessions :
        (\E fail \in BOOLEAN : CallbackFinalize(s, fail))
        => \A row \in links :
              (row.verified /\ row.token = sess[s].token)
              => \E q \in links' :
                    /\ q.discord_id = row.discord_id
                    /\ q.mediawiki_username = row.mediawiki_username
      ]_vars

\* C7: the table holds at most one record per Discord id.
OneRecordPerDiscordId ==
    \A a, b \in links : a.discord_id = b.discord_id => a = b

\* two first-time runs of one user both reached their INSERT: one committed
\* its row, the other was refused
ConcurrentInsertWitness ==
    \E r1, r2 \in Runs :
        /\ r1 # r2
        /\ ctx[r1].user = ctx[r2].user
        /\ ctx[r1].stmt = "insert"
        /\ ctx[r1].token # NoToken
        /\ \E row \in links : row.token = ctx[r1].token
        /\ ctx[r2].stmt = "insert"
        /\ ctx[r2].state \in {"COMPLETED", "ERROR"}
        /\ ctx[r2].token = NoToken

\* C8: every verified record has a wiki_username.
VerifiedHasUsername ==
    \A row \in links : row.verified => row.mediawiki_username # NULL

\* a callback has verified a record
VerifiedWitness ==
    \E s \in Sessions :
        /\ sess[s].pc = "done"
        /\ sess[s].outcome = "success"
        /\ \E row \in links : row.token = sess[s].token /\ row.verified

\* C9: a purge run that the store executes deletes exactly the unverified
\* records created more than 3 hours before now, returns their number and
\* leaves every other record as it is.
PurgeCorrectness ==
    [][Purge(FALSE) =>
        /\ links' \subseteq links
        /\ \A row \in links :
              row \notin links' <=>
                 /\ ~row.verified
                 /\ now - row.created_at > TOKEN_EXPIRY_HOURS * SecondsPerHour
        /\ deleted_count' = Cardinality(links \ links')
      ]_vars

\* the last purge deleted one record and left a verified record older than
\* 3 hours and an unverified one of exactly 3 hours
PurgeWitness ==
    /\ deleted_count = 1
    /\ \E row \in links :
          /\ row.verified
          /\ now - row.created_at > TOKEN_EXPIRY_HOURS * SecondsPerHour
    /\ \E row \in links :
          /\ ~row.verified
          /\ now - row.created_at = TOKEN_EXPIRY_HOURS * SecondsPerHour

\* C10: a status lookup that fails ends the run in ERROR with a message.
StoreFailureIsError ==
    [][\A r \in Runs :
        (\E hfail \in BOOLEAN : HandleStatusCheck(r, TRUE, hfail))
        => /\ ctx'[r].state = "ERROR"
           /\ ctx'[r].error_message # NULL
      ]_vars

Terminal == {"COMPLETED", "ERROR"}

\* C11: in CREATING_TOKEN a refusal for a pending record that is too recent
\* shows the "pending" outcome and a refusal for a record that is verified
\* shows the "already verified" outcome; both end in COMPLETED without a
\* token.
RefusalOutcomeMatchesReason ==
    [][\A r \in Runs :
        LET u == ctx[r].user IN
        /\ ( /\ IssueSelect(r, FALSE, FALSE)
             /\ HasRow(u)
             /\ ~RowOf(u).verified
             /\ now - RowOf(u).created_at < REISSUE_COOLDOWN )
           => /\ ctx'[r].inline = "pending"
              /\ ctx'[r].state = "COMPLETED"
              /\ ctx'[r].token = NoToken
        /\ ( /\ IssueSelect(r, FALSE, FALSE)
             /\ HasRow(u)
             /\ RowOf(u).verified )
           => /\ ctx'[r].inline = "already_verified"
              /\ ctx'[r].state = "COMPLETED"
              /\ ctx'[r].token = NoToken
      ]_vars

\* C12: a step of the run in which the store, the DM channel or the
\* response handler fails ends the run in ERROR with a message and shows
\* the user no pending or successful outcome.
CollaboratorFailureIsError ==
    [][\A r \in Runs :
        ( \/ \E hfail \in BOOLEAN : IssueSelect(r, TRUE, hfail)
          \/ \E hfail \in BOOLEAN : IssueWrite(r, TRUE, hfail)
          \/ \E hfail \in BOOLEAN : HandleDmPermissionTest(r, "error", hfail)
          \/ HandleDmPermissionTest(r, "forbidden", TRUE)
          \/ \E res \in DmResults \ {"ok"} : HandleVerificationSending(r, res) )
        => /\ ctx'[r].state = "ERROR"
           /\ ctx'[r].error_message # NULL
           /\ ctx'[r].inline = NULL
      ]_vars

\* the place of a state in the order of process()
StateOrder(st) ==
    CASE st = "NONE" -> 0
      [] st = "INITIAL" -> 1
      [] st = "CHECKING_STATUS" -> 2
      [] st = "TESTING_DM_PERMISSIONS" -> 3
      [] st = "CREATING_TOKEN" -> 4
      [] st = "SENDING_VERIFICATION" -> 5
      [] OTHER -> 6

\* C13: a run changes state only from a state that is not terminal, to the
\* next state of the order or to a terminal state, and every run that began
\* reaches COMPLETED or ERROR.
ProcessTerminatesInOrder ==
    /\ [][\A r \in Runs :
            ctx'[r].state # ctx[r].state =>
                /\ ctx[r].state \notin Terminal
                /\ \/ ctx'[r].state \in Terminal
                   \/ StateOrder(ctx'[r].state) = StateOrder(ctx[r].state) + 1
         ]_vars
    /\ \A r \in Runs :
            (ctx[r].state = "INITIAL") ~> (ctx[r].state \in Terminal)

\* C14: a run comes to COMPLETED with a token exactly by the step that sent
\* the DM with the link of that token; a send that fails ends it in ERROR.
LinkSentIffCompletedWithToken ==
    [][\A r \in Runs :
        /\ ( /\ ctx'[r].state = "COMPLETED"
             /\ ctx'[r].token # NoToken
             /\ ctx[r].state # "COMPLETED" )
           => HandleVerificationSending(r, "ok")
        /\ HandleVerificationSending(r, "ok")
           => /\ ctx'[r].state = "COMPLETED"
              /\ ctx'[r].token = ctx[r].token
              /\ ctx'[r].token = FreshToken(r)
        /\ (\E res \in DmResults \ {"ok"} : HandleVerificationSending(r, res))
           => /\ ctx'[r].state = "ERROR"
              /\ ctx'[r].error_message # NULL
        /\ ctx[r].state = "COMPLETED" => ctx'[r].token = ctx[r].token
      ]_vars

\* a run sent its link: COMPLETED with the token of its user's record
LinkSentWitness ==
    \E r \in Runs :
        /\ ctx[r].state = "COMPLETED"
        /\ ctx[r].token = FreshToken(r)
        /\ \E row \in links : /\ row.token = ctx[r].token
                              /\ row.discord_id = ctx[r].user

\* what a run is apart from the reply of its command
Process(c) == [c EXCEPT !.reply = "none"]

\* C15: a status check that finds the user's record verified (and whose
\* response handler delivers) shows "already verified" and ends the run in
\* COMPLETED without a token and with the table as it was; the run takes no
\* step after it, so it sends no DM and issues no token.
AlreadyVerifiedShortCircuit ==
    [][\A r \in Runs :
        LET u == ctx[r].user IN
        /\ ( /\ HandleStatusCheck(r, FALSE, FALSE)
             /\ HasRow(u)
             /\ RowOf(u).verified )
           => /\ ctx'[r].state = "COMPLETED"
              /\ ctx'[r].inline = "already_verified"
              /\ ctx'[r].token = NoToken
              /\ ctx'[r].stmt = "none"
              /\ links' = links
        /\ ctx[r].inline = "already_verified"
           => /\ Process(ctx'[r]) = Process(ctx[r])
              /\ ~ENABLED ProcessStep(r)
      ]_vars

\* a run ended on the status check next to its user's verified record
AlreadyVerifiedWitness ==
    \E r \in Runs :
        /\ ctx[r].state = "COMPLETED"
        /\ ctx[r].inline = "already_verified"
        /\ \E row \in links : row.discord_id = ctx[r].user /\ row.verified

\* C16: a DM probe rejected as forbidden (whose response handler delivers)
\* shows "enable DMs" and ends the run in COMPLETED; a probe that fails in
\* another way ends it in ERROR; in both no token was created and the table
\* is as it was.
DmProbeOutcomes ==
    [][\A r \in Runs :
        /\ HandleDmPermissionTest(r, "forbidden", FALSE)
           => /\ ctx'[r].state = "COMPLETED"
              /\ ctx'[r].inline = "enable_dms"
              /\ ctx'[r].error_message = NULL
              /\ ctx'[r].token = NoToken
              /\ ctx'[r].stmt = "none"
              /\ links' = links
        /\ (\E hfail \in BOOLEAN : HandleDmPermissionTest(r, "error", hfail))
           => /\ ctx'[r].state = "ERROR"
              /\ ctx'[r].error_message # NULL
              /\ ctx'[r].inline = NULL
              /\ ctx'[r].token = NoToken
              /\ ctx'[r].stmt = "none"
              /\ links' = links
      ]_vars

\* a run ended on a forbidden probe and its command has returned
DmsClosedWitness ==
    \E r \in Runs :
        /\ ctx[r].state = "COMPLETED"
        /\ ctx[r].inline = "enable_dms"
        /\ ctx[r].reply = "nothing"

\* C17: the invoking user never gets a second message, and gets exactly one
\* once the command has returned, unless its last ctx.send was refused.
ExactlyOneMessage ==
    \A r \in Runs :
        /\ Messages(ctx[r]) <= 1
        /\ ctx[r].reply \notin {"none", "failed"} => Messages(ctx[r]) = 1

\* an outcome shown by the response handler, and the command returned
\* without sending
InlineOutcomeWitness ==
    \E r \in Runs :
        /\ ctx[r].state = "COMPLETED"
        /\ ctx[r].inline = "pending"
        /\ ctx[r].reply = "nothing"
        /\ Messages(ctx[r]) = 1

\* C18: every invocation of verify, verified, unverify and lookup gets to
\* the sending of its response.
EveryCommandAnswered ==
    /\ (cmd.pc = "deferred") ~> (cmd.pc \in {"responded", "send_failed"})
    /\ \A r \in Runs :
          (ctx[r].state = "INITIAL")
              ~> (Messages(ctx[r]) > 0 \/ ctx[r].reply = "failed")

ProviderFailures == ProviderResults \ {"ok"}

\* C19: a callback whose token exchange or identity fetch fails returns the
\* error and leaves the table and the session's stash as they were.
ProviderFailureLeavesRecord ==
    [][\A s \in Sessions :
        (\E res \in ProviderFailures, name \in WikiNames :
                CallbackFetch(s, res, name))
        => /\ sess'[s].outcome \in ProviderFailures
           /\ links' = links
           /\ sess'[s].pc = "stashed"
           /\ sess'[s].token = sess[s].token
      ]_vars

\* the provider failed a callback for a record that is still pending
ProviderFailureWitness ==
    \E s \in Sessions :
        /\ sess[s].pc = "stashed"
        /\ sess[s].outcome \in ProviderFailures
        /\ Pending(sess[s].token)

RejectPages == {"missing_oauth_parameters", "session_missing", "token_mismatch"}

\* C20: a callback without oauth_token or oauth_verifier, or on a session
\* without the stash, or with an oauth_token other than the stashed key,
\* does not pass the checks; it returns an error page, obtains no identity
\* from the provider and leaves the table and the session's stash as they
\* were.
MalformedCallbackRejected ==
    /\ [](\A s \in Sessions, k \in OAuthTokens, v \in BOOLEAN :
            (k = NoKey \/ ~v \/ sess[s].pc = "none" \/ k # sess[s].key)
                => CallbackChecks(s, k, v) # "pass")
    /\ [][\A s \in Sessions, k \in OAuthTokens, v \in BOOLEAN :
            CallbackRejected(s, k, v)
            => /\ sess'[s].outcome \in RejectPages
               /\ links' = links
               /\ sess'[s] = [sess[s] EXCEPT !.outcome = sess'[s].outcome]
         ]_vars

\* a callback with another session's request token was turned away while
\* the session's link token was pending
MismatchWitness ==
    \E s \in Sessions :
        /\ sess[s].pc = "stashed"
        /\ sess[s].outcome = "token_mismatch"
        /\ Pending(sess[s].token)

\* ------------------------------------------------------------------ C21
\* the session's link token was issued by a run for a user whose record
\* has since been given another token by a reissuance
Rotated(s) ==
    \E r \in Runs :
        /\ ctx[r].token # NoToken
        /\ ctx[r].token = sess[s].token
        /\ \E row \in links : /\ row.discord_id = ctx[r].user
                              /\ row.token # sess[s].token

\* C21: once a reissuance has rotated a user's token, a callback that
\* completes from a session still carrying the old token verifies nothing:
\* its UPDATE leaves every record of the store as it was.
StaleSessionChangesNothing ==
    [][\A s \in Sessions :
         (\E fail \in BOOLEAN : CallbackFinalize(s, fail)) /\ Rotated(s)
            => links' = links]_vars

\* a callback completed, and reported success, from a session whose token
\* had been rotated away; the user's record is still pending
StaleSessionWitness ==
    \E s \in Sessions :
        /\ sess[s].pc = "done"
        /\ sess[s].outcome = "success"
        /\ Rotated(s)
        /\ \E r \in Runs, row \in links :
              /\ ctx[r].token = sess[s].token
              /\ row.discord_id = ctx[r].user
              /\ ~row.verified

\* ------------------------------------------------------------------ C22
\* C22: /verify starts the OAuth flow (stashes the correlation state and
\* redirects to the authorization URL) only for the token of an existing
\* pending record; for any other token the flow is not started.
EntryOnlyForPending ==
    [][\A s \in Sessions, tok \in SentTokens \cup {BogusToken} :
         VerifyEntry(s, tok) /\ ~Pending(tok) => sess'[s].pc # "stashed"]_vars

\* ------------------------------------------------------------------ C30
\* C30: for a Discord id without a record, create_verification_token reads
\* the call time and finds no row, and its INSERT, executed while the id is
\* still without a record, adds exactly one record for the id (verified =
\* FALSE, no username, a token no record carried, created_at = the call
\* time), hands that token back and leaves every other record as it was.
CreatesOneRecord ==
    [][\A r \in Runs :
        LET u == ctx[r].user IN
        /\ ( /\ \E hfail \in BOOLEAN : IssueSelect(r, FALSE, hfail)
             /\ ~HasRow(u) )
           => /\ ctx'[r].state = "CREATING_TOKEN"
              /\ ctx'[r].stmt = "insert"
              /\ ctx'[r].call_now = now
              /\ links' = links
        /\ ( /\ \E hfail \in BOOLEAN : IssueWrite(r, FALSE, hfail)
             /\ ctx[r].stmt = "insert"
             /\ ~HasRow(u) )
           => /\ \A row \in links : row.token # FreshToken(r)
              /\ links' = links \cup
                    {Row(u, NULL, FreshToken(r), ctx[r].call_now, FALSE)}
              /\ Cardinality(links') = Cardinality(links) + 1
              /\ ctx'[r].token = FreshToken(r)
              /\ ctx'[r].state = "SENDING_VERIFICATION"
      ]_vars

\* an INSERT has created a record next to another user's record, with the
\* time read when the call began although the clock had moved on since
CreatesOneRecordWitness ==
    \E r \in Runs :
        /\ ctx[r].state = "SENDING_VERIFICATION"
        /\ ctx[r].stmt = "insert"
        /\ \E row \in links : /\ row.discord_id = ctx[r].user
                              /\ row.token = ctx[r].token
                              /\ row.created_at = ctx[r].call_now
                              /\ row.created_at < now
                              /\ ~row.verified
        /\ \E other \in links : other.discord_id # ctx[r].user

\* ------------------------------------------------------------------ C23
\* the member of the seat has a verified record under an autoconfirmed
\* wiki account and does not hold the role
DueForRole(p) ==
    /\ p \notin roles
    /\ \E row \in links : /\ row.discord_id = p[2]
                          /\ row.verified
                          /\ row.mediawiki_username \in Autoconfirmed

\* C23: when the role-grant job reaches a guild member who is verified in
\* its snapshot under an autoconfirmed wiki account and does not hold the
\* wiki-author role, and the autoconfirmed request and add_roles both
\* succeed, the member holds the role afterwards; and as long as the job
\* keeps running, such a member eventually holds the role (or the record
\* is gone).
RoleGranted ==
    /\ [][\A g \in Guilds, id \in StoreIds :
            ( /\ SweepMember(g, id, "ok", "ok")
              /\ id \in GuildMembers(g)
              /\ <<g, id>> \notin roles
              /\ \E u \in sweep.snapshot : u[1] = id /\ u[2] \in Autoconfirmed )
            => <<g, id>> \in roles']_vars
    /\ \A p \in Seats : DueForRole(p) ~> (p \in roles \/ ~DueForRole(p))

\* ------------------------------------------------------------------ C24
\* the Discord id is a member of no guild the bot is in
InNoGuild(id) == \A g \in Guilds : id \notin GuildMembers(g)

\* C24: the role changes hands only by a grant of the role-grant job to a
\* guild member whose id is verified in the sweep's snapshot, who did not
\* hold the role and whose wiki account the autoconfirmed check confirmed;
\* a snapshot record whose id is in no guild is passed over with no grant
\* and no error.
GrantsOnlyWhenDue ==
    [][ /\ roles' # roles =>
            \E g \in Guilds, id \in StoreIds :
                /\ SweepMember(g, id, "ok", "ok")
                /\ roles' = roles \cup {<<g, id>>}
                /\ <<g, id>> \notin roles
                /\ id \in GuildMembers(g)
                /\ \E u \in sweep.snapshot :
                      u[1] = id /\ u[2] \in Autoconfirmed
        /\ \A g \in Guilds, id \in StoreIds :
            ( /\ \E check \in CheckResults, grant \in GrantResults :
                    SweepMember(g, id, check, grant)
              /\ InNoGuild(id) )
            => /\ roles' = roles
               /\ sweep'.failed = sweep.failed
      ]_vars

\* a sweep has finished whose snapshot held a verified record of an id
\* that is in no guild, and no error was reported for that id
AbsentMemberWitness ==
    /\ sweep.pc = "done"
    /\ \E u \in sweep.snapshot :
          /\ InNoGuild(u[1])
          /\ \A g \in Guilds : <<g, u[1]>> \notin sweep.failed
    /\ sweep.failed # {}

\* ------------------------------------------------------------------ C25
\* C25: a pass of the sweep for one member, failed or not, ends with the
\* sweep going on to the members it has not reached yet; a sweep is over
\* only when every record of its snapshot has been reached in every guild.
FailureDoesNotStopSweep ==
    /\ [][\A g \in Guilds, id \in StoreIds :
            (\E check \in CheckResults, grant \in GrantResults :
                SweepMember(g, id, check, grant))
            => /\ sweep'.todo = sweep.todo \ {<<g, id>>}
               /\ sweep'.snapshot = sweep.snapshot
               /\ sweep.failed \subseteq sweep'.failed
               /\ (sweep'.pc = "running") = (sweep'.todo # {})]_vars
    /\ [](sweep.pc = "done" => sweep.todo = {})
    /\ (sweep.pc = "running") ~> (sweep.pc = "done")

\* a sweep has finished in which the check failed for more than one member
SweepFailuresWitness ==
    /\ sweep.pc = "done"
    /\ \E p, q \in sweep.failed : p # q

\* ------------------------------------------------------------------ C26
\* C26: an unverify command that deletes a record leaves no guild member of
\* the deleted record's Discord id holding the wiki-author role.
UnverifyRevokesRole ==
    [][\A id \in StoreIds :
         ( /\ \E fail \in BOOLEAN, send \in SendResults :
                UnverifyCommand(fail, send)
           /\ HasRow(id)
           /\ ~(\E row \in links' : row.discord_id = id) )
         => \A g \in Guilds : <<g, id>> \notin roles']_vars

\* ------------------------------------------------------------------ C27
\* the invocation being served names a Discord member other than its
\* author, or a wiki username
NamesAnother == cmd.target \notin {NoMember, cmd.author} \/ cmd.wiki # NULL

\* C27 as stated: an invocation by a user without an admin role deletes at
\* most the author's own record; an unverify that names another member or
\* a wiki username is answered with the permission-denied message and
\* deletes nothing; verified is answered with the permission-denied message.
NonAdminAlwaysDenied ==
    [][~cmd.admin =>
        /\ (\E fail \in BOOLEAN, send \in SendResults :
                UnverifyCommand(fail, send))
            => /\ \A row \in links \ links' : row.discord_id = cmd.author
               /\ NamesAnother => links' = links
        /\ (\E fail \in BOOLEAN : UnverifyCommand(fail, "ok")) /\ NamesAnother
            => cmd'.response = "permission_denied"
        /\ CheckVerified("ok") => cmd'.response = "permission_denied"
      ]_vars

\* C27, amended: as above, except that an unverify naming both a member and
\* a wiki username is answered with the invalid-usage message.
NonAdminRefused ==
    [][~cmd.admin =>
        /\ (\E fail \in BOOLEAN, send \in SendResults :
                UnverifyCommand(fail, send))
            => /\ \A row \in links \ links' : row.discord_id = cmd.author
               /\ NamesAnother => links' = links
        /\ (\E fail \in BOOLEAN : UnverifyCommand(fail, "ok")) /\ NamesAnother
            => cmd'.response =
                  IF cmd.target # NoMember /\ cmd.wiki # NULL
                    THEN "invalid_usage" ELSE "permission_denied"
        /\ CheckVerified("ok") => cmd'.response = "permission_denied"
      ]_vars

\* an unverify was refused for want of permission while the table held
\* every record it could have named
NonAdminRefusedWitness ==
    /\ cmd.name = "unverify"
    /\ cmd.pc = "responded"
    /\ cmd.response = "permission_denied"
    /\ \A id \in StoreIds : \E row \in links : /\ row.discord_id = id
                                               /\ row.verified

\* ------------------------------------------------------------------ C28
\* the records whose stored username is the given name up to letter case
SameNameIgnoringCase(wiki) ==
    {r \in links : /\ r.mediawiki_username # NULL
                   /\ Lower(r.mediawiki_username) = Lower(wiki)}

\* C28: an admin's unverify by a wiki username that some record stores, in
\* whatever letter case, deletes exactly the records storing it and reports
\* the removal; a lookup by such a username reports the Discord user found.
WikiNameIgnoresCase ==
    [][( /\ cmd.target = NoMember
         /\ cmd.wiki \notin {NULL, AnyString}
         /\ SameNameIgnoringCase(cmd.wiki) # {} )
        => /\ UnverifyCommand(FALSE, "ok") /\ cmd.admin
              => /\ links' = links \ SameNameIgnoringCase(cmd.wiki)
                 /\ cmd'.response = "user_unverified_wiki_name"
           /\ LookupCommand("ok") => cmd'.response = "discord_user_found"
      ]_vars

\* ------------------------------------------------------------------ C29
\* a step of token issuance or reissuance, of the purge or of the role job
FrameSteps ==
    \/ \E r \in Runs, fail, hfail \in BOOLEAN :
            IssueSelect(r, fail, hfail) \/ IssueWrite(r, fail, hfail)
    \/ \E fail \in BOOLEAN : Purge(fail)
    \/ SweepStep

\* C29: the wiki_username of a record changes only in the UPDATE of the
\* callback; issuance, reissuance, the purge and the role job leave every
\* verified record as it is, and the role job leaves the whole table as it
\* is.
VerifiedRecordFrame ==
    [][ /\ \A row \in links, after \in links' :
              ( /\ after.discord_id = row.discord_id
                /\ after.mediawiki_username # row.mediawiki_username )
              => \E s \in Sessions : CallbackFinalize(s, FALSE)
        /\ FrameSteps => \A row \in links : row.verified => row \in links'
        /\ SweepStep => links' = links
      ]_vars

\* ------------------------------------------------------------------ C31
\* C31: when the SELECT of create_verification_token finds the record of the
\* Discord id verified, the call returns no token and executes no further
\* statement: the table, that record included, is as it was.
VerifiedRecordNotReissued ==
    [][\A r \in Runs :
        LET u == ctx[r].user IN
        ( /\ \E hfail \in BOOLEAN : IssueSelect(r, FALSE, hfail)
          /\ HasRow(u)
          /\ RowOf(u).verified )
        => /\ ctx'[r].token = NoToken
           /\ ctx'[r].stmt = "select"
           /\ ctx'[r].state \in Terminal
           /\ links' = links
      ]_vars

\* a call found its user's record verified, long after the cooldown, and
\* returned without a token; the record still has a username and a token
VerifiedRecordNotReissuedWitness ==
    \E r \in Runs, row \in links :
        /\ ctx[r].state \in Terminal
        /\ ctx[r].stmt = "select"
        /\ ctx[r].token = NoToken
        /\ row.discord_id = ctx[r].user
        /\ row.verified
        /\ row.mediawiki_username # NULL
        /\ now - row.created_at >= REISSUE_COOLDOWN

\* ------------------------------------------------------------------ C32
\* run q rotated the token of the user it shares with run r, after both
\* had passed the cooldown test, and its rotation is the one in the store
RotatedBefore(q, r) ==
    /\ q # r
    /\ ctx[q].user = ctx[r].user
    /\ ctx[q].stmt = "update"
    /\ ctx[q].token # NoToken
    /\ \E row \in links : row.token = ctx[q].token

\* C32: when two verify runs of one user have both passed the cooldown test
\* and one has rotated the token, the UPDATE of the other leaves the user
\* with exactly one record, carrying the token written last; the token of
\* the earlier rotation matches no record any more.
LastRotationWins ==
    [][\A q, r \in Runs :
        ( /\ \E hfail \in BOOLEAN : IssueWrite(r, FALSE, hfail)
          /\ ctx[r].stmt = "update"
          /\ RotatedBefore(q, r) )
        => /\ Cardinality(SelectById(links', ctx[r].user)) = 1
           /\ \A row \in SelectById(links', ctx[r].user) :
                 /\ row.token = FreshToken(r)
                 /\ row.created_at = ctx[r].call_now
           /\ ctx'[r].token = FreshToken(r)
           /\ \A row \in links' : row.token # ctx[q].token
           /\ \A row \in links : row.discord_id # ctx[r].user => row \in links'
      ]_vars

\* both runs of a user hold a token from their UPDATE; the store has the
\* later one only
LastRotationWitness ==
    \E q, r \in Runs :
        /\ q # r
        /\ ctx[q].user = ctx[r].user
        /\ ctx[q].stmt = "update" /\ ctx[q].token # NoToken
        /\ ctx[r].stmt = "update" /\ ctx[r].token # NoToken
        /\ \E row \in links : row.token = ctx[r].token
        /\ \A row \in links : row.token # ctx[q].token

\* ------------------------------------------------------------------ C33
\* C33: a verify run in ERROR carries an error_message, and the embed
\* process() returns for it is the error embed with that message as its
\* text, not the fallback text.
ErrorCarriesMessage ==
    \A r \in Runs :
        ctx[r].state = "ERROR"
            => /\ ctx[r].error_message # NULL
               /\ ResultEmbed(ctx[r])
               /\ ErrorEmbedText(ctx[r]) = ctx[r].error_message
               /\ ErrorEmbedText(ctx[r]) # UnknownError

\* a run ended in ERROR because the link could not be sent, and the command
\* delivered the error embed
ErrorCarriesMessageWitness ==
    \E r \in Runs :
        /\ ctx[r].state = "ERROR"
        /\ ctx[r].error_message = "link_not_sent"
        /\ ctx[r].token # NoToken
        /\ ctx[r].reply = "result"

\* ------------------------------------------------------------------ C34
\* C34: when the write of create_verification_token commits and the call
\* hands back a token, the table holds a record of the call's Discord id
\* with that token and verified = FALSE.
ReturnedTokenIsStored ==
    [][\A r \in Runs :
        ( /\ \E fail, hfail \in BOOLEAN : IssueWrite(r, fail, hfail)
          /\ ctx'[r].token # NoToken )
        => \E row \in links' : /\ row.discord_id = ctx[r].user
                               /\ row.token = ctx'[r].token
                               /\ ~row.verified
      ]_vars

\* ------------------------------------------------------------------ C35
\* C35: every record with verified = FALSE has no wiki_username.
PendingHasNoUsername ==
    \A row \in links : ~row.verified => row.mediawiki_username = NULL

\* ------------------------------------------------------------------ C36
\* C36: when sending the verification link fails and the run ends in ERROR,
\* the token the run stored is not left in the table: no record carries it,
\* so the cooldown does not refuse the user's next verify.
FailedSendLeavesNoToken ==
    [][\A r \in Runs :
        (\E res \in DmResults \ {"ok"} : HandleVerificationSending(r, res))
        => /\ ctx'[r].state = "ERROR"
           /\ \A row \in links' : row.token # ctx[r].token
      ]_vars

\* ------------------------------------------------------------------ C39
\* run q committed the first record of the user it shares with run r,
\* whose SELECT had found no record either
InsertedBefore(q, r) ==
    /\ q # r
    /\ ctx[q].user = ctx[r].user
    /\ ctx[q].stmt = "insert"
    /\ ctx[q].token # NoToken
    /\ \E row \in links : row.token = ctx[q].token

\* C39: of two first-time verify runs of one user that both reached their
\* INSERT, the second to execute it gets no token and changes nothing: the
\* user's record keeps the token the first run got, and the second run
\* ends in COMPLETED with the pending message or in ERROR with a message.
SecondInsertRefused ==
    [][\A q, r \in Runs :
        ( /\ \E fail, hfail \in BOOLEAN : IssueWrite(r, fail, hfail)
          /\ ctx[r].stmt = "insert"
          /\ InsertedBefore(q, r) )
        => /\ ctx'[r].token = NoToken
           /\ links' = links
           /\ \A row \in SelectById(links', ctx[r].user) :
                 row.token = ctx[q].token
           /\ \/ ctx'[r].state = "COMPLETED" /\ ctx'[r].inline = "pending"
              \/ ctx'[r].state = "ERROR" /\ ctx'[r].error_message # NULL
           /\ ~ctx'[r].raised
      ]_vars

\* two first-time runs of one user are over: one sent the stored token,
\* the other was told that a verification is pending
SecondInsertWitness ==
    \E q, r \in Runs :
        /\ q # r
        /\ ctx[q].user = ctx[r].user
        /\ ctx[q].stmt = "insert" /\ ctx[q].state = "COMPLETED"
        /\ ctx[q].token # NoToken
        /\ \E row \in links : /\ row.discord_id = ctx[q].user
                              /\ row.token = ctx[q].token
        /\ ctx[r].stmt = "insert" /\ ctx[r].state = "COMPLETED"
        /\ ctx[r].token = NoToken
        /\ ctx[r].inline = "pending"

\* ------------------------------------------------------------------ C37
\* C37: no two records carry the same wiki_username up to letter case.
OneDiscordIdPerWikiName ==
    \A a, b \in links :
        ( /\ a # b
          /\ a.mediawiki_username # NULL
          /\ b.mediawiki_username # NULL )
        => Lower(a.mediawiki_username) # Lower(b.mediawiki_username)

\* ------------------------------------------------------------------ C38
\* the request tokens issued to earlier /verify requests of the session,
\* whose stash has been replaced
EarlierKeys(s) ==
    {k \in OAuthTokens : RequestKey(s, 1) <= k /\ k < sess[s].key}

\* C38: the UPDATE of a callback changes only records carrying the link
\* token stashed in its session, and sets them verified; a callback that
\* presents the request token of an earlier /verify of the session, whose
\* stash a later /verify has replaced, does not pass the checks, is
\* answered with the mismatch page and changes neither table nor stash.
OnlyLatestStashFinalizes ==
    /\ [](\A s \in Sessions : \A k \in EarlierKeys(s) :
            CallbackChecks(s, k, TRUE) = "token_mismatch")
    /\ [][\A s \in Sessions : \A k \in EarlierKeys(s) :
            CallbackRejected(s, k, TRUE)
            => /\ sess'[s] = [sess[s] EXCEPT !.outcome = "token_mismatch"]
               /\ links' = links
         ]_vars
    /\ [][\A s \in Sessions :
            (\E fail \in BOOLEAN : CallbackFinalize(s, fail))
            => \A row \in links \ links' :
                  /\ row.token = sess[s].token
                  /\ \E after \in links' : /\ after.discord_id = row.discord_id
                                           /\ after.token = row.token
                                           /\ after.verified
         ]_vars

\* a session's second /verify replaced the stash, and a callback with a
\* request token other than the new one was turned away while the stashed
\* link token was pending
ReplacedStashWitness ==
    \E s \in Sessions :
        /\ sess[s].key = RequestKey(s, 2)
        /\ sess[s].pc = "stashed"
        /\ sess[s].outcome = "token_mismatch"
        /\ Pending(sess[s].token)

\* ------------------------------------------------------------------ C40
\* C40: whatever string it is given, remove_verification_by_wiki_username
\* deletes only verified records whose stored wiki username equals that
\* string up to letter case.
RemovesOnlyNamed ==
    [][\A wiki \in Patterns :
        (\E fail \in BOOLEAN : RemoveByWikiName(wiki, fail))
        => \A row \in links \ links' :
              /\ row.verified
              /\ row.mediawiki_username # NULL
              /\ Lower(row.mediawiki_username) = Lower(wiki)
      ]_vars

====
